---- MODULE Spec2Model ----
(***************************************************************************)
(* Model of Botan's Library_State (src/src/libstate/libstate.cpp): the     *)
(* configuration store, the allocator registry, the initialization         *)
(* protocol, the destructor and the global accessor.                       *)
(*                                                                         *)
(* A Library_State object and the heap objects it owns are one record      *)
(* (variable ls); every member function is an operator from such a record  *)
(* to the record after the call, so that initialize composes the same      *)
(* add_allocator / set_default_allocator / set the other callers use.      *)
(* Pointers are naturals, 0 being the null pointer.                        *)
(***************************************************************************)
EXTENDS Naturals, Sequences, FiniteSets, TLC

VARIABLES
  ls,               \* the Library_State under test and what it owns
  last,             \* the call that returned last, with its result
  deref,            \* the locals of a running deref_alias call
  hist,             \* history: what earlier calls on ls returned:
                    \*   init_ok   an initialize call has returned normally
                    \*   init_err  what the latest initialize call threw
                    \*   init_failed  an initialize call has failed for want
                    \*             of a mutex factory or on the self-tests
                    \*   winner    the value of the first set call of a thread
                    \*             that locked the configuration
                    \*   raced     a set call locked the configuration while
                    \*             another thread was entering set
                    \*   seen      get_allocator() was called and no
                    \*             set_default_allocator since
                    \*   again     the latest get_allocator() found seen set
                    \*   ret, prev the results of the latest get_allocator()
                    \*             and of the one before
  global_lib_state, \* the global pointer (0: none installed)
  heap,             \* per instance: allocated, times delete was applied
  thr,              \* per thread: the call it is in and the call's locals
  locks             \* per mutex of ls: the thread that holds it (0: free)

vars == <<ls, last, deref, hist, global_lib_state, heap, thr, locks>>

(***************************************************************************)
(* Bounds and input sets                                                   *)
(***************************************************************************)
NumProviders == 3
NumInstances == 3
NumEngines == 3
MaxWrites == 2
NumThreads == 2
MaxDeletes == 2

Providers == 1..NumProviders
Instances == 1..NumInstances
EngineIds == 1..NumEngines
Threads == 1..NumThreads

TypeNames == <<"malloc", "locking">>

\* Allocator::type() of each provider: providers 1 and 3 share a type name.
ProviderType(p) == TypeNames[((p - 1) % Len(TypeNames)) + 1]

EmptyConfig == [x \in {} |-> ""]
EmptyFactory == [x \in {} |-> 0]

map_put(mapping, key, value) ==
  [x \in DOMAIN mapping \cup {key} |-> IF x = key THEN value ELSE mapping[x]]

(***************************************************************************)
(* std::map lookups (stl_util.h search_map, both overloads)                *)
(***************************************************************************)
search_map(mapping, key, null_result) ==
  IF key \in DOMAIN mapping THEN mapping[key] ELSE null_result

search_map_found(mapping, key, null_result, found_result) ==
  IF key \in DOMAIN mapping THEN found_result ELSE null_result

\* Mutex_Holder lock(m): the lock must exist to be taken.
Mutex_Holder(st, m) == st.alive /\ m # 0

(***************************************************************************)
(* Library_State::Library_State                                            *)
(***************************************************************************)
Library_State ==
  [ mutex_factory            |-> 0,
    allocator_lock           |-> 0,
    config_lock              |-> 0,
    cached_default_allocator |-> 0,
    algorithm_factory        |-> 0,
    allocators               |-> <<>>,
    alloc_factory            |-> EmptyFactory,
    config                   |-> EmptyConfig,
    \* owned heap objects and the calls made on them
    mutexes                  |-> 0,
    factories                |-> 0,
    factory_deletes          |-> 0,
    engines                  |-> <<>>,
    inits                    |-> [p \in Providers |-> 0],
    destroys                 |-> [p \in Providers |-> 0],
    alive                    |-> TRUE ]

(***************************************************************************)
(* Configuration store                                                     *)
(***************************************************************************)
get(st, section, key) ==
  search_map(st.config, section \o "/" \o key, "")

is_set(st, section, key) ==
  search_map_found(st.config, section \o "/" \o key, FALSE, TRUE)

\* set that never replaces a non-empty value, whatever overwrite says
set_first_writer_wins(st, section, key, value, overwrite) ==
  LET full_key == section \o "/" \o key
  IN  IF full_key \notin DOMAIN st.config \/ st.config[full_key] = ""
      THEN [st EXCEPT !.config = map_put(@, full_key, value)]
      ELSE st

\* set that writes whatever overwrite says
set_always_writes(st, section, key, value, overwrite) ==
  [st EXCEPT !.config = map_put(@, section \o "/" \o key, value)]

set(st, section, key, value, overwrite) ==
  LET full_key == section \o "/" \o key
  IN  IF overwrite \/ full_key \notin DOMAIN st.config \/ st.config[full_key] = ""
      THEN [st EXCEPT !.config = map_put(@, full_key, value)]
      ELSE st

add_alias(st, key, value) == set(st, "alias", key, value, TRUE)

set_option(st, key, value) == set(st, "conf", key, value, TRUE)

option(st, key) == get(st, "conf", key)

\* deref_alias with `if` for `while`: at most one alias is followed
deref_alias_one_hop(st, d) ==
  IF d.pc = "test"
  THEN IF is_set(st, "alias", d.result) /\ d.result = d.key
       THEN [d EXCEPT !.pc = "body"]
       ELSE [d EXCEPT !.pc = "return"]
  ELSE [d EXCEPT !.result = get(st, "alias", d.result), !.pc = "test"]

\* One step of deref_alias on its local `result`: at "test" the loop
\* condition is_set("alias", result), at "body" result = get("alias", result).
deref_alias_step(st, d) ==
  IF d.pc = "test"
  THEN IF is_set(st, "alias", d.result)
       THEN [d EXCEPT !.pc = "body"]
       ELSE [d EXCEPT !.pc = "return"]
  ELSE [d EXCEPT !.result = get(st, "alias", d.result), !.pc = "test"]

(***************************************************************************)
(* Allocator registry                                                      *)
(***************************************************************************)
\* get_allocator that resolves the default on every call
get_allocator_uncached(st, type) ==
  IF type # ""
  THEN [st |-> st, ret |-> search_map(st.alloc_factory, type, 0)]
  ELSE LET opt    == option(st, "base/default_allocator")
           chosen == IF opt = "" THEN "malloc" ELSE opt
           found  == search_map(st.alloc_factory, chosen, 0)
       IN  [st  |-> [st EXCEPT !.cached_default_allocator = found],
            ret |-> found]

get_allocator(st, type) ==
  IF type # ""
  THEN [st |-> st, ret |-> search_map(st.alloc_factory, type, 0)]
  ELSE IF st.cached_default_allocator = 0
       THEN LET opt    == option(st, "base/default_allocator")
                chosen == IF opt = "" THEN "malloc" ELSE opt
                found  == search_map(st.alloc_factory, chosen, 0)
            IN  [st  |-> [st EXCEPT !.cached_default_allocator = found],
                 ret |-> found]
       ELSE [st |-> st, ret |-> st.cached_default_allocator]

add_allocator(st, allocator) ==
  [st EXCEPT !.inits[allocator] = @ + 1,
             !.allocators = Append(@, allocator),
             !.alloc_factory = map_put(@, ProviderType(allocator), allocator)]

\* set_default_allocator that forgets to drop the cached default
set_default_allocator_keeps_cache(st, type) ==
  IF type = ""
  THEN st
  ELSE set(st, "conf", "base/default_allocator", type, TRUE)

set_default_allocator(st, type) ==
  IF type = ""
  THEN st
  ELSE [set(st, "conf", "base/default_allocator", type, TRUE)
          EXCEPT !.cached_default_allocator = 0]

(***************************************************************************)
(* Algorithm factory, mutexes                                              *)
(***************************************************************************)
\* algo_factory without its null check
algo_factory_unchecked(st) == [err |-> "", ptr |-> st.algorithm_factory]

\* algo_factory(): the factory, or the Invalid_State it throws.
algo_factory(st) ==
  IF st.algorithm_factory = 0
  THEN [err |-> "Invalid_State: uninitialized", ptr |-> 0]
  ELSE [err |-> "", ptr |-> st.algorithm_factory]

\* get_mutex(): mutex_factory->make() hands out a mutex not handed out before.
get_mutex(st) ==
  [st |-> [st EXCEPT !.mutexes = @ + 1], ret |-> st.mutexes + 1]

\* Algorithm_Factory::add_engine: append, keeping the order of the calls.
add_engine(st, engine) == [st EXCEPT !.engines = Append(@, engine)]

\* The primitives an engine can construct: every engine supplies "X", the
\* engines from 2 on "Y" as well, those from 3 on "Z" as well.
Primitives == {"X", "Y", "Z"}
Supplies(engine, name) ==
  \/ name = "X"
  \/ name = "Y" /\ engine >= 2
  \/ name = "Z" /\ engine >= 3

\* A resolution query of the Algorithm_Factory: the engines are asked in the
\* order they were added and the first that supplies the primitive answers;
\* 0 when none does.
RECURSIVE resolve_from(_, _, _)
resolve_from(engines, name, j) ==
  IF j > Len(engines)
  THEN 0
  ELSE IF Supplies(engines[j], name)
       THEN engines[j]
       ELSE resolve_from(engines, name, j + 1)

resolve(st, name) == resolve_from(st.engines, name, 1)

\* load_default_config(): the built-in defaults, each written without overwrite.
DefaultConfig == { <<"conf", "base/pkcs8_tries", "3">> }

RECURSIVE load_entries(_, _)
load_entries(st, entries) ==
  IF entries = {}
  THEN st
  ELSE LET e == CHOOSE x \in entries : TRUE
       IN  load_entries(set(st, e[1], e[2], e[3], FALSE), entries \ {e})

load_default_config(st) == load_entries(st, DefaultConfig)

(***************************************************************************)
(* Library_State::initialize                                               *)
(***************************************************************************)
\* for(j = 0; j != mod_allocs.size(); ++j) add_allocator(mod_allocs[j]);
RECURSIVE add_allocators(_, _, _)
add_allocators(st, mod_allocs, j) ==
  IF j > Len(mod_allocs)
  THEN st
  ELSE add_allocators(add_allocator(st, mod_allocs[j]), mod_allocs, j + 1)

\* for(j = 0; j != mod_engines.size(); ++j) algorithm_factory->add_engine(..);
\* the engine loop run from the last engine on offer to the first
RECURSIVE add_engines_reversed(_, _, _)
add_engines_reversed(st, mod_engines, j) ==
  IF j > Len(mod_engines)
  THEN st
  ELSE add_engine(add_engines_reversed(st, mod_engines, j + 1), mod_engines[j])

RECURSIVE add_engines(_, _, _)
add_engines(st, mod_engines, j) ==
  IF j > Len(mod_engines)
  THEN st
  ELSE add_engines(add_engine(st, mod_engines[j]), mod_engines, j + 1)

\* initialize without its entry check
never_initialized(st) == FALSE

\* if(mutex_factory) throw Invalid_State(...)
already_initialized(st) == st.mutex_factory # 0

\* initialize without its check of the mutex factory it obtained
mutex_factory_unchecked(mf) == FALSE

\* if(!mutex_factory) throw Invalid_State(...)
no_mutex_factory(mf) == mf = 0

\* args: the InitializerOptions; modules: the Modules descriptor;
\* build: whether BOTAN_HAS_SELFTEST is defined and what passes_self_tests()
\* answers.  The result is the object after the call and the exception thrown.
initialize(st, args, modules, build) ==
  IF already_initialized(st)
  THEN [st |-> st, err |-> "Invalid_State: already initialized"]
  ELSE
    LET mf == modules.mutex_factory[args.thread_safe]
        s1 == [st EXCEPT !.mutex_factory = mf]
    IN  IF no_mutex_factory(mf)
        THEN [st |-> s1, err |-> "Invalid_State: no mutex module"]
        ELSE
          LET m1 == get_mutex(s1)
              s2 == [m1.st EXCEPT !.allocator_lock = m1.ret]
              m2 == get_mutex(s2)
              s3 == [m2.st EXCEPT !.config_lock = m2.ret]
              s4 == [s3 EXCEPT !.cached_default_allocator = 0]
              s5 == add_allocators(s4, modules.allocators, 1)
              s6 == set_default_allocator(s5, modules.default_allocator)
              s7 == load_default_config(s6)
              s8 == [s7 EXCEPT !.factories = @ + 1,
                               !.algorithm_factory = s7.factories + 1,
                               !.engines = <<>>]
              s9 == add_engines(s8, modules.engines, 1)
          IN  IF build.has_selftest
                 /\ (args.fips_mode \/ args.self_test)
                 /\ ~build.passes_self_tests
              THEN [st |-> s9, err |-> "Self_Test_Failure"]
              ELSE [st |-> s9, err |-> ""]

(***************************************************************************)
(* Library_State::~Library_State                                           *)
(***************************************************************************)
\* teardown that walks the name table: a provider whose name a later
\* provider took over is skipped
destroy_named_allocators(st, j) ==
  LET named == { p \in Providers :
                   /\ ProviderType(p) \in DOMAIN st.alloc_factory
                   /\ st.alloc_factory[ProviderType(p)] = p }
  IN  [st EXCEPT !.destroys =
         [p \in Providers |-> IF p \in named THEN @[p] + 1 ELSE @[p]]]

\* for(j = 0; j != allocators.size(); ++j) allocators[j]->destroy();
RECURSIVE destroy_allocators(_, _)
destroy_allocators(st, j) ==
  IF j > Len(st.allocators)
  THEN st
  ELSE destroy_allocators(
         [st EXCEPT !.destroys[st.allocators[j]] = @ + 1], j + 1)

destructor(st) ==
  LET s1 == IF st.algorithm_factory # 0
            THEN [st EXCEPT !.factory_deletes = @ + 1]
            ELSE st
      s2 == [s1 EXCEPT !.cached_default_allocator = 0]
      s3 == destroy_allocators(s2, 1)
  IN  [s3 EXCEPT !.alive = FALSE]

(***************************************************************************)
(* Global accessor                                                         *)
(***************************************************************************)
\* g: the global pointer and, per instance, whether it was allocated and how
\* many times delete was applied to it.
swap_global_state(g, new_state) ==
  [g   |-> [g EXCEPT !.global_lib_state = new_state],
   ret |-> g.global_lib_state]

\* delete p: nothing for the null pointer, else the instance's destructor.
delete_state(g, p) ==
  IF p = 0 THEN g ELSE [g EXCEPT !.heap[p].deletes = @ + 1]

\* set_global_state that drops the old state without deleting it
set_global_state_leak(g, new_state) == swap_global_state(g, new_state).g

set_global_state(g, new_state) ==
  LET r == swap_global_state(g, new_state)
  IN  delete_state(r.g, r.ret)

\* new Library_State: the lowest address not handed out yet.
new_state(g) == CHOOSE i \in Instances :
                  /\ ~g.heap[i].allocated
                  /\ \A k \in Instances : k < i => g.heap[k].allocated

allocate(g, p) ==
  IF p = 0 THEN g ELSE [g EXCEPT !.heap[p].allocated = TRUE]

\* LibraryInitializer::initialize(): a new, initialized state is installed.
LibraryInitializer_initialize(g) ==
  LET p == new_state(g) IN set_global_state(allocate(g, p), p)

global_state(g) ==
  LET g1 == IF g.global_lib_state = 0 THEN LibraryInitializer_initialize(g) ELSE g
  IN  [g |-> g1, ret |-> g1.global_lib_state]

(***************************************************************************)
(* State machine                                                           *)
(***************************************************************************)
NoCall ==
  [ op |-> "none", section |-> "", key |-> "", value |-> "",
    overwrite |-> FALSE, ret |-> "", flag |-> FALSE,
    arg |-> 0, ptr |-> 0, err |-> "", offer |-> <<>> ]

Call(op) == [NoCall EXCEPT !.op = op]

\* seen and writes record, for the running call, the configuration maps that
\* existed since it started and the number of add_alias calls of other
\* threads since then
Idle == [pc |-> "idle", key |-> "", result |-> "", seen |-> {}, writes |-> 0]

\* a thread outside every call; ret keeps what its latest get returned
ThreadIdle == [pc |-> "idle", op |-> "", value |-> "", arg |-> 0,
               at_end |-> FALSE, ret |-> ""]

\* the failures of the initialization protocol itself
InitFailures == {"Invalid_State: no mutex module", "Self_Test_Failure"}

G == [global_lib_state |-> global_lib_state, heap |-> heap]

Init ==
  /\ ls = Library_State
  /\ last = NoCall
  /\ deref = Idle
  /\ hist = [init_ok |-> FALSE, init_err |-> "not called",
             init_failed |-> FALSE, winner |-> "", raced |-> FALSE,
             seen |-> FALSE, again |-> FALSE, ret |-> 0, prev |-> 0]
  /\ global_lib_state = 0
  /\ heap = [i \in Instances |-> [allocated |-> FALSE, deletes |-> 0]]
  /\ thr = [t \in Threads |-> ThreadIdle]
  /\ locks = [allocator |-> 0, config |-> 0]

globals == <<global_lib_state, heap>>
threads == <<thr, locks>>

Initialize(args, modules, build) ==
  /\ ls.alive
  /\ deref.pc = "idle"
  /\ LET r == initialize(ls, args, modules, build)
     IN  /\ ls' = r.st
         /\ last' = [Call("initialize") EXCEPT !.err = r.err,
                       \* the self-test gate is compiled in and asked for
                       !.flag = build.has_selftest
                                /\ (args.fips_mode \/ args.self_test),
                       \* what passes_self_tests() would answer
                       !.value = IF build.passes_self_tests
                                 THEN "tests pass" ELSE "tests fail",
                       \* the mutex factory and the engines on offer
                       !.arg = modules.mutex_factory[args.thread_safe],
                       !.offer = modules.engines]
         /\ hist' = [hist EXCEPT !.init_ok = @ \/ r.err = "",
                                 !.init_err = r.err,
                                 !.init_failed = @ \/ r.err \in InitFailures,
                                 !.seen = @ /\ r.st.mutexes = ls.mutexes,
                                 !.again = @ /\ r.st.mutexes = ls.mutexes]
  /\ UNCHANGED <<deref, globals, threads>>

Set(section, key, value, overwrite) ==
  /\ Mutex_Holder(ls, ls.config_lock)
  /\ deref.pc = "idle"
  /\ ls' = set(ls, section, key, value, overwrite)
  /\ last' = [Call("set") EXCEPT !.section = section, !.key = key,
                !.value = value, !.overwrite = overwrite]
  /\ UNCHANGED <<deref, hist, globals, threads>>

AddAlias(key, value) ==
  /\ Mutex_Holder(ls, ls.config_lock)
  /\ deref.pc = "idle"
  /\ ls' = add_alias(ls, key, value)
  /\ last' = [Call("add_alias") EXCEPT !.key = key, !.value = value]
  /\ UNCHANGED <<deref, hist, globals, threads>>

SetOption(key, value) ==
  /\ Mutex_Holder(ls, ls.config_lock)
  /\ deref.pc = "idle"
  /\ ls' = set_option(ls, key, value)
  /\ last' = [Call("set_option") EXCEPT !.key = key, !.value = value]
  /\ UNCHANGED <<deref, hist, globals, threads>>

Get(section, key) ==
  /\ Mutex_Holder(ls, ls.config_lock)
  /\ deref.pc = "idle"
  /\ last' = [Call("get") EXCEPT !.section = section, !.key = key,
                !.ret = get(ls, section, key)]
  /\ UNCHANGED <<ls, deref, hist, globals, threads>>

IsSet(section, key) ==
  /\ Mutex_Holder(ls, ls.config_lock)
  /\ deref.pc = "idle"
  /\ last' = [Call("is_set") EXCEPT !.section = section, !.key = key,
                !.flag = is_set(ls, section, key)]
  /\ UNCHANGED <<ls, deref, hist, globals, threads>>

\* deref_alias is entered: std::string result = key;
DerefAliasCall(key) ==
  /\ Mutex_Holder(ls, ls.config_lock)
  /\ deref.pc = "idle"
  /\ deref' = [pc |-> "test", key |-> key, result |-> key,
               seen |-> {ls.config}, writes |-> 0]
  /\ last' = [Call("deref_alias: enter") EXCEPT !.key = key]
  /\ UNCHANGED <<ls, hist, globals, threads>>

\* the while condition, the loop body or the return
DerefAliasStep ==
  /\ Mutex_Holder(ls, ls.config_lock)
  /\ deref.pc # "idle"
  /\ LET d == deref_alias_step(ls, deref)
     IN  IF d.pc = "return"
         THEN /\ deref' = Idle
              /\ last' = [Call("deref_alias") EXCEPT !.key = d.key,
                            !.ret = d.result, !.arg = d.writes]
         ELSE /\ deref' = d
              /\ last' = [Call("deref_alias: loop") EXCEPT !.key = d.key]
  /\ UNCHANGED <<ls, hist, globals, threads>>

GetAllocator(type) ==
  /\ Mutex_Holder(ls, ls.allocator_lock)
  /\ deref.pc = "idle"
  /\ LET r == get_allocator(ls, type)
     IN  /\ ls' = r.st
         /\ last' = [Call("get_allocator") EXCEPT !.value = type, !.ptr = r.ret,
                       \* the call directly follows set_default_allocator(key)
                       !.flag = (last.op = "set_default_allocator"),
                       !.key = IF last.op = "set_default_allocator"
                               THEN last.value ELSE ""]
         /\ hist' = IF type = ""
                    THEN [hist EXCEPT !.seen = TRUE, !.again = hist.seen,
                                      !.ret = r.ret, !.prev = hist.ret]
                    ELSE hist
  /\ UNCHANGED <<deref, globals, threads>>

\* the caller hands over a provider the registry does not own yet
AddAllocator(allocator) ==
  /\ Mutex_Holder(ls, ls.allocator_lock)
  /\ deref.pc = "idle"
  /\ \A j \in DOMAIN ls.allocators : ls.allocators[j] # allocator
  /\ ls' = add_allocator(ls, allocator)
  /\ last' = [Call("add_allocator") EXCEPT !.arg = allocator]
  /\ UNCHANGED <<deref, hist, globals, threads>>

SetDefaultAllocator(type) ==
  /\ Mutex_Holder(ls, ls.allocator_lock)
  /\ deref.pc = "idle"
  /\ ls' = set_default_allocator(ls, type)
  /\ last' = [Call("set_default_allocator") EXCEPT !.value = type]
  /\ hist' = [hist EXCEPT !.seen = FALSE, !.again = FALSE]
  /\ UNCHANGED <<deref, globals, threads>>

AlgoFactory ==
  /\ ls.alive
  /\ deref.pc = "idle"
  /\ LET r == algo_factory(ls)
     IN  last' = [Call("algo_factory") EXCEPT !.err = r.err, !.ptr = r.ptr]
  /\ UNCHANGED <<ls, deref, hist, globals, threads>>

Destroy ==
  /\ ls.alive
  /\ deref.pc = "idle"
  /\ ls' = destructor(ls)
  /\ last' = Call("~Library_State")
  /\ UNCHANGED <<deref, hist, globals, threads>>

\* what a caller can pass as new_state: null, a state it allocated earlier and
\* nobody deleted, or a state it allocates for the call
Passable(p) ==
  \/ p = 0
  \/ p \in Instances /\ heap[p].allocated /\ heap[p].deletes = 0
  \/ p \in Instances /\ (\E i \in Instances : ~heap[i].allocated) /\ p = new_state(G)

SetGlobalState(p) ==
  /\ Passable(p)
  /\ global_lib_state # 0 => heap[global_lib_state].deletes < MaxDeletes
  /\ LET g == set_global_state(allocate(G, p), p)
     IN  /\ global_lib_state' = g.global_lib_state
         /\ heap' = g.heap
  /\ last' = [Call("set_global_state") EXCEPT !.arg = p]
  /\ UNCHANGED <<ls, deref, hist, threads>>

SwapGlobalState(p) ==
  /\ Passable(p)
  /\ LET r == swap_global_state(allocate(G, p), p)
     IN  /\ global_lib_state' = r.g.global_lib_state
         /\ heap' = r.g.heap
         /\ last' = [Call("swap_global_state") EXCEPT !.arg = p, !.ptr = r.ret]
  /\ UNCHANGED <<ls, deref, hist, threads>>

GlobalState ==
  /\ global_lib_state = 0 => \E i \in Instances : ~heap[i].allocated
  /\ LET r == global_state(G)
     IN  /\ global_lib_state' = r.g.global_lib_state
         /\ heap' = r.g.heap
         /\ last' = [Call("global_state") EXCEPT !.ptr = r.ret]
  /\ UNCHANGED <<ls, deref, hist, threads>>

(***************************************************************************)
(* Inputs                                                                  *)
(***************************************************************************)
Sections == {"alias", "conf"}
Keys == {"x", "y"}
Values == {"", "x", "y", "z"}
Names == {"x", "y", "z"}
AllocTypes == {"", "malloc", "locking", "mmap"}

NoTests == [thread_safe |-> FALSE, fips_mode |-> FALSE, self_test |-> FALSE]
Builtin_Modules ==
  [ mutex_factory     |-> [thread_safe \in BOOLEAN |-> 1],
    allocators        |-> <<1, 2>>,
    default_allocator |-> "locking",
    engines           |-> <<1, 2>> ]
Build == [has_selftest |-> TRUE, passes_self_tests |-> TRUE]

(***************************************************************************)
(* Specifications                                                          *)
(***************************************************************************)
\* the configuration store, one caller
NextConfig ==
  \/ Initialize(NoTests, Builtin_Modules, Build)
  \/ \E s \in Sections, k \in Keys, v \in Values, o \in BOOLEAN : Set(s, k, v, o)
  \/ \E k \in Keys, v \in Values : AddAlias(k, v)
  \/ \E s \in Sections, k \in Keys : Get(s, k)
  \/ \E s \in Sections, k \in Keys : IsSet(s, k)
  \/ \E k \in Names : DerefAliasCall(k)
  \/ DerefAliasStep

Spec == Init /\ [][NextConfig]_vars

\* a started deref_alias call keeps running
FairSpec == Spec /\ WF_vars(DerefAliasStep)

\* initialization and teardown of one Library_State, one caller
InitArgs ==
  [thread_safe : BOOLEAN, fips_mode : BOOLEAN, self_test : BOOLEAN]
\* a platform without thread support: no mutex factory when thread safety
\* is asked for
MutexModules ==
  { [thread_safe \in BOOLEAN |-> IF thread_safe THEN 0 ELSE 1] }
ModuleSets ==
  [ mutex_factory     : MutexModules,
    allocators        : {<<1, 2>>, <<3, 1>>},
    default_allocator : {"", "locking"},
    engines           : {<<1, 2>>, <<2, 1>>} ]
Builds ==
  { [has_selftest |-> FALSE, passes_self_tests |-> TRUE],
    [has_selftest |-> TRUE, passes_self_tests |-> TRUE],
    [has_selftest |-> TRUE, passes_self_tests |-> FALSE] }

NextInit ==
  \/ \E a \in InitArgs, m \in ModuleSets, b \in Builds : Initialize(a, m, b)
  \/ AlgoFactory
  \/ \E p \in Providers : AddAllocator(p)
  \/ \E t \in {"", "malloc"} : GetAllocator(t)
  \/ Set("conf", "x", "y", TRUE)
  \/ Destroy

SpecInit == Init /\ [][NextInit]_vars

\* the allocator registry, one caller
AllocModules ==
  [ mutex_factory     : {[thread_safe \in BOOLEAN |-> 1]},
    allocators        : {<<>>, <<1>>, <<2, 1>>},
    default_allocator : {"", "locking"},
    engines           : {<<1>>} ]

NextAlloc ==
  \/ \E m \in AllocModules : Initialize(NoTests, m, Build)
  \/ \E p \in Providers : AddAllocator(p)
  \/ \E t \in AllocTypes : GetAllocator(t)
  \/ \E t \in AllocTypes : SetDefaultAllocator(t)
  \/ \E v \in AllocTypes : SetOption("base/default_allocator", v)
  \/ \E v \in AllocTypes, o \in BOOLEAN :
       Set("conf", "base/default_allocator", v, o)

SpecAlloc == Init /\ [][NextAlloc]_vars

\* the global accessor
NextGlobal ==
  \/ \E p \in 0..NumInstances : SetGlobalState(p)
  \/ \E p \in 0..NumInstances : SwapGlobalState(p)
  \/ GlobalState

SpecGlobal == Init /\ [][NextGlobal]_vars

(***************************************************************************)
(* Claims on the configuration store                                       *)
(***************************************************************************)
\* C1: in the state right after set(section, key, value) with overwrite=true,
\* get(section, key) is exactly value (the empty string included) and
\* is_set(section, key) is true, whatever calls came before.
C1_SetThenGet ==
  (last.op = "set" /\ last.overwrite)
    => /\ get(ls, last.section, last.key) = last.value
       /\ is_set(ls, last.section, last.key)

\* an overwriting set of the empty string over a non-empty value, after
\* other set/add_alias calls
C1_Witness ==
  /\ last.op = "set" /\ last.overwrite /\ last.value = ""
  /\ last.section = "conf" /\ last.key = "x"
  /\ is_set(ls, "conf", "x")
  /\ get(ls, "alias", "x") = "y"
  /\ get(ls, "conf", "y") = "z"

\* C2: a set without overwrite writes exactly when (s, k) has no entry or an
\* empty value, and otherwise leaves the store as it was; a set with overwrite
\* always makes get(s, k) the new value.
C2_OverwritePolicy ==
  [][ last'.op = "set" =>
        LET s == last'.section
            k == last'.key
            B == last'.value
        IN  IF last'.overwrite
            THEN get(ls', s, k) = B /\ is_set(ls', s, k)
            ELSE IF is_set(ls, s, k) /\ get(ls, s, k) # ""
                 THEN ls'.config = ls.config
                 ELSE get(ls', s, k) = B /\ is_set(ls', s, k)
    ]_vars

\* set(s,k,"A") was followed by set(s,k,"B",overwrite=false): still "A"
C2_Witness ==
  /\ last.op = "set" /\ ~last.overwrite
  /\ last.value = "y"
  /\ get(ls, last.section, last.key) = "x"

\* C3: a started deref_alias call returns, for every alias table the
\* program can build (cyclic ones included).
C3_DerefTerminates == (deref.pc # "idle") ~> (deref.pc = "idle")

\* the name n alias steps away from name
RECURSIVE Follow(_, _, _)
Follow(st, name, n) ==
  IF n = 0 THEN name ELSE Follow(st, get(st, "alias", name), n - 1)

\* name r ends the alias chain of key: some number of alias steps leads from
\* key to r, every name before r on the way has an alias, and r has none
EndsChain(st, key, r) ==
  \E n \in 0..Cardinality(DOMAIN st.config) :
    /\ r = Follow(st, key, n)
    /\ \A m \in 0..(n - 1) : is_set(st, "alias", Follow(st, key, m))
    /\ ~is_set(st, "alias", r)

\* C4: with no concurrent writer, a deref_alias(key) that returns gives the
\* name that ends the alias chain of key, a name with no alias; a key without
\* an alias is returned unchanged; x -> y -> z gives z for x and z for z.
C4_DerefResult ==
  last.op = "deref_alias" =>
    /\ EndsChain(ls, last.key, last.ret)
    /\ ~is_set(ls, "alias", last.ret)
    /\ (~is_set(ls, "alias", last.key) => last.ret = last.key)
    /\ (/\ get(ls, "alias", "x") = "y"
        /\ get(ls, "alias", "y") = "z"
        /\ last.key \in {"x", "z"}) => last.ret = "z"

\* deref_alias("x") has returned "z" through x -> y -> z
C4_Witness ==
  /\ last.op = "deref_alias" /\ last.key = "x" /\ last.ret = "z"
  /\ get(ls, "alias", "x") = "y"
  /\ get(ls, "alias", "y") = "z"

(***************************************************************************)
(* Claims on initialization and teardown (SpecInit)                        *)
(***************************************************************************)
\* C5: once an initialize call has succeeded, every further initialize call
\* fails with Invalid_State and leaves the whole object (mutex factory,
\* allocator list, name table, cached default, configuration, engines) as it
\* was.
C5_DoubleInit ==
  [][ (hist.init_ok /\ last'.op = "initialize")
        => /\ last'.err = "Invalid_State: already initialized"
           /\ ls' = ls
    ]_vars

\* a second initialize has failed on a state that was initialized and then
\* used: three providers, a resolved default, engines, a caller's option
C5_Witness ==
  /\ last.op = "initialize"
  /\ last.err = "Invalid_State: already initialized"
  /\ hist.init_ok
  /\ Len(ls.allocators) = 3
  /\ ls.cached_default_allocator # 0
  /\ Len(ls.engines) = 2
  /\ is_set(ls, "conf", "x")

\* C6: algo_factory() throws Invalid_State as long as no Algorithm_Factory was
\* constructed (a fresh state, or initialize failed for want of a mutex
\* factory), and after a successful initialize every call returns the one
\* factory that initialize constructed.
C6_AlgoFactory ==
  last.op = "algo_factory" =>
    /\ ls.factories = 0 => last.err = "Invalid_State: uninitialized"
    /\ hist.init_ok => /\ last.err = ""
                       /\ last.ptr = 1
                       /\ ls.factories = 1

\* algo_factory() was called after an initialize that found no mutex factory
C6_Witness ==
  /\ last.op = "algo_factory"
  /\ last.err = "Invalid_State: uninitialized"
  /\ hist.init_err = "Invalid_State: no mutex module"

\* how many times provider p was registered
Registrations(st, p) ==
  Cardinality({ j \in DOMAIN st.allocators : st.allocators[j] = p })

\* C7: at every moment each provider handed to add_allocator has had init
\* called once, and destroy is called on it once, by the destructor: after
\* destruction the N registered providers have got N destroy calls, one each,
\* also those whose type name a later provider took over.
C7_InitDestroyOnce ==
  \A p \in Providers :
    /\ Registrations(ls, p) <= 1
    /\ ls.inits[p] = Registrations(ls, p)
    /\ ls.destroys[p] = IF ls.alive THEN 0 ELSE Registrations(ls, p)

\* a state with three providers, two of them of type "malloc", was destroyed
C7_Witness ==
  /\ ~ls.alive
  /\ Len(ls.allocators) = 3
  /\ Registrations(ls, 1) = 1 /\ Registrations(ls, 3) = 1
  /\ ProviderType(1) = ProviderType(3)
  /\ \A p \in {1, 2, 3} : ls.destroys[p] = 1

(***************************************************************************)
(* Claims on the allocator registry (SpecAlloc)                            *)
(***************************************************************************)
\* C8 as stated: a get_allocator() that follows an earlier get_allocator()
\* with no set_default_allocator call in between returns what the earlier
\* call returned.
C8_SameDefault ==
  [][ (hist.seen /\ last'.op = "get_allocator" /\ last'.value = "")
        => last'.ptr = hist.ret
    ]_vars

\* C8 amended: if the earlier get_allocator() returned a provider (not the
\* null not-found result), a later get_allocator() with no
\* set_default_allocator call in between returns that same provider,
\* whatever add_allocator, set, set_option and get_allocator(type) calls
\* were made in between.
C8_SameProvider ==
  [][ (hist.seen /\ hist.ret # 0
       /\ last'.op = "get_allocator" /\ last'.value = "")
        => last'.ptr = hist.ret
    ]_vars

\* a second get_allocator() has returned provider 1 although the option now
\* names "locking", under which provider 2 is registered
C8_Witness ==
  /\ last.op = "get_allocator" /\ last.value = ""
  /\ hist.again
  /\ last.ptr = 1 /\ hist.prev = 1
  /\ option(ls, "base/default_allocator") = "locking"
  /\ search_map(ls.alloc_factory, "locking", 0) = 2

\* the provider registered last under type, 0 when there is none
Registered(st, type) ==
  LET js == { j \in DOMAIN st.allocators : ProviderType(st.allocators[j]) = type }
  IN  IF js = {}
      THEN 0
      ELSE st.allocators[CHOOSE j \in js : \A k \in js : k <= j]

\* C9: a get_allocator() that directly follows set_default_allocator(newType),
\* newType not empty, returns the provider registered under newType, or null
\* when there is none; set_default_allocator with a non-empty type writes the
\* option conf base/default_allocator and clears the cached default, and with
\* the empty type it changes nothing.
C9_SetDefaultThenGet ==
  [][ /\ (last'.op = "get_allocator" /\ last'.value = ""
          /\ last'.flag /\ last'.key # "")
            => last'.ptr = Registered(ls', last'.key)
      /\ last'.op = "set_default_allocator"
            => IF last'.value = ""
               THEN ls' = ls
               ELSE /\ option(ls', "base/default_allocator") = last'.value
                    /\ ls'.cached_default_allocator = 0
                    /\ ls'.alloc_factory = ls.alloc_factory
                    /\ ls'.allocators = ls.allocators
    ]_vars

\* the default was provider 1; set_default_allocator("locking") and then
\* get_allocator() gave provider 2
C9_Witness ==
  /\ last.op = "get_allocator" /\ last.value = ""
  /\ last.flag /\ last.key = "locking"
  /\ last.ptr = 2
  /\ hist.prev = 1

(***************************************************************************)
(* Claims on the global accessor (SpecGlobal)                              *)
(***************************************************************************)
\* C10: swap_global_state(new) installs new, returns the state installed
\* before and deletes nothing; set_global_state(new) installs new and applies
\* delete exactly once, to the state installed before (to nothing when none
\* was installed): the effect of the swap followed by the deletion of what
\* it returned.
C10_SetIsSwapThenDelete ==
  [][ /\ last'.op = "swap_global_state"
            => /\ global_lib_state' = last'.arg
               /\ last'.ptr = global_lib_state
               /\ \A i \in Instances : heap'[i].deletes = heap[i].deletes
      /\ last'.op = "set_global_state"
            => /\ global_lib_state' = last'.arg
               /\ \A i \in Instances :
                    heap'[i].deletes =
                      heap[i].deletes + (IF i = global_lib_state THEN 1 ELSE 0)
    ]_vars

\* set_global_state has replaced and deleted an installed state, while a
\* state that swap_global_state returned earlier is still undeleted
C10_Witness ==
  /\ last.op = "set_global_state"
  /\ global_lib_state = last.arg /\ global_lib_state # 0
  /\ \E i \in Instances :
       i # global_lib_state /\ heap[i].allocated /\ heap[i].deletes = 1
  /\ \E j \in Instances :
       j # global_lib_state /\ heap[j].allocated /\ heap[j].deletes = 0

(***************************************************************************)
(* Further claims on initialization (SpecInit)                             *)
(***************************************************************************)
\* C11: with the self-tests compiled in and asked for (fips_mode or
\* self_test), an initialize whose self-tests fail throws Self_Test_Failure,
\* and afterwards the state does not pass for initialized: algo_factory()
\* hands out no Algorithm_Factory; an initialize that does not ask for the
\* self-tests never throws Self_Test_Failure.
C11_SelfTestGate ==
  /\ (last.op = "initialize" /\ last.flag /\ last.value = "tests fail"
      /\ last.err # "Invalid_State: already initialized"
      /\ last.arg # 0)
        => last.err = "Self_Test_Failure"
  /\ (last.op = "algo_factory" /\ hist.init_err = "Self_Test_Failure")
        => last.err = "Invalid_State: uninitialized"
  /\ (last.op = "initialize" /\ ~last.flag) => last.err # "Self_Test_Failure"

\* C13: once an initialize call on the state has failed for want of a mutex
\* factory or on the self-tests, no initialize call on it succeeds.
C13_FailureTerminal == hist.init_failed => ~hist.init_ok

\* C15: an initialize that gets no mutex factory throws Invalid_State and
\* changes nothing: no lock is made, no provider initialized or registered,
\* no configuration entry written, no Algorithm_Factory constructed; after it
\* algo_factory() still throws and the allocator registry is empty.
C15_NoMutexFactory ==
  [][ (last'.op = "initialize" /\ last'.arg = 0)
        => /\ last'.err \in { "Invalid_State: no mutex module",
                              "Invalid_State: already initialized" }
           /\ ls' = ls
           /\ last'.err = "Invalid_State: no mutex module"
                => /\ ls'.mutexes = 0
                   /\ ls'.allocator_lock = 0 /\ ls'.config_lock = 0
                   /\ \A p \in Providers : ls'.inits[p] = 0
                   /\ ls'.allocators = <<>>
                   /\ DOMAIN ls'.alloc_factory = {}
                   /\ DOMAIN ls'.config = {}
                   /\ ls'.factories = 0
                   /\ algo_factory(ls').err = "Invalid_State: uninitialized"
    ]_vars

\* initialize has just failed for want of a mutex factory
C15_Witness ==
  /\ last.op = "initialize" /\ last.arg = 0
  /\ last.err = "Invalid_State: no mutex module"
  /\ ls.alive

(***************************************************************************)
(* Further claims on the global state (SpecGlobal)                         *)
(***************************************************************************)
\* C20: after any sequence of set_global_state and swap_global_state calls,
\* passing the installed state or the null pointer included, the installed
\* state is not a destroyed instance, global_state() does not return a
\* destroyed instance, and no instance is destroyed twice.
C20_NoDestroyedInstalled ==
  /\ global_lib_state # 0 => heap[global_lib_state].deletes = 0
  /\ (last.op = "global_state" /\ last.ptr # 0) => heap[last.ptr].deletes = 0
  /\ \A i \in Instances : heap[i].deletes <= 1

(***************************************************************************)
(* Further claims on the allocator registry (SpecAlloc)                    *)
(***************************************************************************)
\* what get_allocator() would resolve with an empty cache: the provider
\* registered under the value of conf base/default_allocator, or under
\* "malloc" when that is unset or empty
FreshDefault(st) ==
  LET chosen == option(st, "base/default_allocator")
  IN  Registered(st, IF chosen = "" THEN "malloc" ELSE chosen)

Coherent(st) ==
  st.cached_default_allocator # 0
    => st.cached_default_allocator = FreshDefault(st)

\* C14 as stated: in every reachable state a non-empty cached default is the
\* provider registered under the current value of conf
\* base/default_allocator ("malloc" when unset or empty).
C14_CacheCoherent == Coherent(ls)

\* C14 amended: get_allocator, set_default_allocator and initialize keep the
\* cache coherent (from a state whose cache is empty or coherent they lead to
\* one whose cache is empty or coherent), and from such a state
\* get_allocator() returns what a fresh resolution returns; set, set_option
\* and add_allocator leave the cached default as it is.
C14_CoherencePreserved ==
  [][ /\ (last'.op \in {"get_allocator", "set_default_allocator", "initialize"}
          /\ Coherent(ls))
            => Coherent(ls')
      /\ (last'.op = "get_allocator" /\ last'.value = "" /\ Coherent(ls))
            => last'.ptr = FreshDefault(ls)
      /\ last'.op \in {"set", "set_option", "add_allocator"}
            => ls'.cached_default_allocator = ls.cached_default_allocator
    ]_vars

\* the cached default is the "locking" provider that the option names, after
\* a get_allocator() call
C14_Witness ==
  /\ last.op = "get_allocator" /\ last.value = ""
  /\ option(ls, "base/default_allocator") = "locking"
  /\ ls.cached_default_allocator # 0
  /\ ls.cached_default_allocator = Registered(ls, "locking")

(***************************************************************************)
(* Frame of set (SpecFrame): sections and keys that contain the separator  *)
(***************************************************************************)
FrameSections == {"a", "a/b", "alias", "conf"}
FrameKeys     == {"b/c", "c"}
FrameValues   == {"v", "w"}

NextFrame ==
  \/ Initialize(NoTests, Builtin_Modules, Build)
  \/ \E s \in FrameSections, k \in FrameKeys, v \in FrameValues, o \in BOOLEAN :
       Set(s, k, v, o)
  \/ \E s \in FrameSections, k \in FrameKeys : Get(s, k)
  \/ \E s \in FrameSections, k \in FrameKeys : IsSet(s, k)

SpecFrame == Init /\ [][NextFrame]_vars

\* C19: set(s, k, v) changes at most the entry of the pair (s, k): for every
\* other pair (s2, k2), those whose section or key contains "/" and those of
\* the sections "alias" and "conf" included, get(s2, k2) and is_set(s2, k2)
\* are what they were before the call.
C19_SetFrame ==
  [][ last'.op = "set"
        => \A s2 \in FrameSections, k2 \in FrameKeys :
             <<s2, k2>> # <<last'.section, last'.key>>
               => /\ get(ls', s2, k2) = get(ls, s2, k2)
                  /\ is_set(ls', s2, k2) = is_set(ls, s2, k2)
    ]_vars

(***************************************************************************)
(* The engines of the Algorithm_Factory (SpecEngine)                       *)
(***************************************************************************)
\* Algorithm_Factory::add_engine, called on the factory algo_factory() gives;
\* the caller hands over an engine the factory does not own yet
AddEngine(engine) ==
  /\ ls.alive
  /\ deref.pc = "idle"
  /\ algo_factory(ls).err = ""
  /\ \A j \in DOMAIN ls.engines : ls.engines[j] # engine
  /\ ls' = add_engine(ls, engine)
  /\ last' = [Call("add_engine") EXCEPT !.arg = engine]
  /\ UNCHANGED <<deref, hist, globals, threads>>

\* a resolution query on the factory algo_factory() gives
Resolve(name) ==
  /\ ls.alive
  /\ deref.pc = "idle"
  /\ algo_factory(ls).err = ""
  /\ last' = [Call("resolve") EXCEPT !.key = name, !.ptr = resolve(ls, name)]
  /\ UNCHANGED <<ls, deref, hist, globals, threads>>

EngineModules ==
  [ mutex_factory     : {[thread_safe \in BOOLEAN |-> 1]},
    allocators        : {<<1>>},
    default_allocator : {""},
    engines           : {<<>>, <<1>>, <<2>>, <<1, 2>>, <<2, 1>>} ]

NextEngine ==
  \/ \E m \in EngineModules : Initialize(NoTests, m, Build)
  \/ \E e \in EngineIds : AddEngine(e)
  \/ \E n \in Primitives : Resolve(n)

SpecEngine == Init /\ [][NextEngine]_vars

\* the position of an engine in the factory's collection, 0 when absent
EnginePosition(engines, engine) ==
  IF \E j \in DOMAIN engines : engines[j] = engine
  THEN CHOOSE j \in DOMAIN engines : engines[j] = engine
  ELSE 0

\* C12: initialize adds the engines to the Algorithm_Factory in the order the
\* module descriptor offers them; a resolution query returns the first
\* engine, in addition order, that supplies the primitive, so of two engines
\* that both supply it the one added first answers; and no later add_engine
\* changes the result of a query that an engine added earlier satisfies.
C12_EnginePriority ==
  [][ /\ (last'.op = "initialize" /\ last'.err = "")
            => ls'.engines = last'.offer
      /\ last'.op = "resolve"
            => \A j \in DOMAIN ls.engines :
                 Supplies(ls.engines[j], last'.key)
                   => /\ last'.ptr # 0
                      /\ EnginePosition(ls.engines, last'.ptr) <= j
                      /\ Supplies(last'.ptr, last'.key)
      /\ last'.op = "add_engine"
            => /\ ls'.engines = Append(ls.engines, last'.arg)
               /\ \A n \in Primitives :
                    resolve(ls, n) # 0 => resolve(ls', n) = resolve(ls, n)
    ]_vars

\* engines 2 and 1 were offered in that order, engine 3 added afterwards; all
\* three supply "X" and the query for it is answered by engine 2
C12_Witness ==
  /\ last.op = "resolve" /\ last.key = "X"
  /\ ls.engines = <<2, 1, 3>>
  /\ last.ptr = 2

(***************************************************************************)
(* deref_alias beside a thread that adds aliases (SpecDeref)               *)
(***************************************************************************)
\* no name leads back to itself through aliases
Acyclic(st) ==
  \A n \in Names, k \in 1..Cardinality(Names) :
    (\A m \in 0..(k - 1) : is_set(st, "alias", Follow(st, n, m)))
      => Follow(st, n, k) # n

\* add_alias called by another thread: each of set, is_set and get holds the
\* configuration lock for its one map access, so the call falls between two
\* steps of a running deref_alias. The callers keep the alias table acyclic.
ConcurrentAddAlias(key, value) ==
  /\ Mutex_Holder(ls, ls.config_lock)
  /\ deref.pc # "idle" => deref.writes < MaxWrites
  /\ Acyclic(add_alias(ls, key, value))
  /\ ls' = add_alias(ls, key, value)
  /\ deref' = IF deref.pc = "idle"
              THEN deref
              ELSE [deref EXCEPT !.seen = @ \cup {ls'.config},
                                 !.writes = @ + 1]
  /\ last' = [Call("add_alias") EXCEPT !.key = key, !.value = value]
  /\ UNCHANGED <<hist, globals, threads>>

NextDeref ==
  \/ Initialize(NoTests, Builtin_Modules, Build)
  \/ \E k \in Keys, v \in Values : ConcurrentAddAlias(k, v)
  \/ \E k \in Names : DerefAliasCall(k)
  \/ DerefAliasStep

SpecDeref == Init /\ [][NextDeref]_vars

\* the state with configuration map T
WithConfig(st, T) == [st EXCEPT !.config = T]

\* C18 as stated: the name a deref_alias(key) call returns is the transitive
\* dereference of key in one alias table that existed between the start of the
\* call and its return.
C18_Linearizable ==
  [][ last'.op = "deref_alias"
        => \E T \in deref.seen :
             EndsChain(WithConfig(ls, T), last'.key, last'.ret)
    ]_vars

\* the names reached from the names of S in at most n alias steps, each step
\* an alias entry of one of the tables
RECURSIVE Reached(_, _, _)
Reached(tables, S, n) ==
  IF n = 0
  THEN S
  ELSE Reached(tables,
               S \cup { get(WithConfig(ls, T), "alias", a) :
                          <<T, a>> \in { p \in tables \X S :
                              is_set(WithConfig(ls, p[1]), "alias", p[2]) } },
               n - 1)

\* C18 amended: the name returned is reached from key by alias steps each of
\* which was an entry of the alias table at some moment of the call, and it
\* had no alias at some moment of the call; when no add_alias falls into the
\* call, it is the transitive dereference of key.
C18_HopwiseDeref ==
  [][ last'.op = "deref_alias"
        => /\ last'.ret \in Reached(deref.seen, {last'.key},
                                    Cardinality(Names) + MaxWrites)
           /\ \E T \in deref.seen : ~is_set(WithConfig(ls, T), "alias", last'.ret)
           /\ deref.writes = 0 => EndsChain(ls, last'.key, last'.ret)
    ]_vars

\* a deref_alias("x") call into which two add_alias calls fell has returned
C18_Witness ==
  /\ last.op = "deref_alias" /\ last.key = "x"
  /\ last.arg = MaxWrites
  /\ last.ret # "x"

(***************************************************************************)
(* Threads                                                                 *)
(* Each thread makes one call at a time.  A call is entered (pc "enter"),  *)
(* then takes the lock its Mutex_Holder names, which blocks while any      *)
(* thread holds that lock.  A step is the code run between two lock        *)
(* acquisitions; the lock is released when the Mutex_Holder goes out of    *)
(* scope at the return.                                                    *)
(***************************************************************************)
\* Mutex::lock on a mutex that is not recursive: possible when no thread,
\* the caller included, holds it
CanLock(lock) == lock = "none" \/ locks[lock] = 0

\* the lock of the Mutex_Holder at the top of each operation
outer_lock(op) ==
  IF op \in {"get", "is_set", "set"} THEN "config" ELSE "allocator"

\* a nested call that takes the lock its caller already holds
inner_lock_allocator(op) == "allocator"

\* the lock taken by the nested call of get_allocator (option -> get) and of
\* set_default_allocator (set), made while the allocator lock is held
inner_lock(op) == "config"

\* set's lookup with a Mutex_Holder that goes out of scope before the write
set_find_unlocked(st, section, key) ==
  [ at_end |-> ~is_set(st, section, key), locked |-> FALSE ]

\* set up to the test: the Mutex_Holder is in scope until the return, and
\* i = config.find(full_key)
set_find(st, section, key) ==
  [ at_end |-> ~is_set(st, section, key), locked |-> TRUE ]

\* set from the test on, with the iterator of the lookup
set_write(st, section, key, value, overwrite, at_end) ==
  IF overwrite \/ at_end \/ get(st, section, key) = ""
  THEN [st EXCEPT !.config = map_put(@, section \o "/" \o key, value)]
  ELSE st

\* the lock the next step of thread t takes
Need(t) ==
  CASE thr[t].pc = "enter" -> outer_lock(thr[t].op)
    [] thr[t].pc = "inner" -> inner_lock(thr[t].op)
    [] OTHER               -> "none"

Busy(t) == thr[t].pc # "idle"

ThreadCall(t, op, value, arg) ==
  /\ Mutex_Holder(ls, IF outer_lock(op) = "config"
                      THEN ls.config_lock ELSE ls.allocator_lock)
  /\ ~Busy(t)
  /\ op = "add_allocator"
       => /\ \A j \in DOMAIN ls.allocators : ls.allocators[j] # arg
          /\ \A u \in Threads : ~(thr[u].op = "add_allocator" /\ thr[u].arg = arg)
  /\ thr' = [thr EXCEPT ![t] = [pc |-> "enter", op |-> op, value |-> value,
                                arg |-> arg, at_end |-> FALSE, ret |-> ""]]
  /\ UNCHANGED <<ls, last, deref, hist, globals, locks>>

\* set("conf", "k", value, false): lock and lookup
ThreadSetFind(t) ==
  /\ thr[t].pc = "enter" /\ thr[t].op = "set"
  /\ CanLock(Need(t))
  /\ LET r == set_find(ls, "conf", "k")
     IN  /\ thr' = [thr EXCEPT ![t].pc = "write", ![t].at_end = r.at_end]
         /\ locks' = [locks EXCEPT !.config = IF r.locked THEN t ELSE 0]
  /\ hist' = [hist EXCEPT
                !.winner = IF @ = "" THEN thr[t].value ELSE @,
                !.raced = @ \/ \E u \in Threads \ {t} :
                                 thr[u].pc = "enter" /\ thr[u].op = "set"]
  /\ UNCHANGED <<ls, last, deref, globals>>

\* set: test, write and return
ThreadSetWrite(t) ==
  /\ thr[t].pc = "write"
  /\ ls' = set_write(ls, "conf", "k", thr[t].value, FALSE, thr[t].at_end)
  /\ locks' = [locks EXCEPT !.config = IF @ = t THEN 0 ELSE @]
  /\ thr' = [thr EXCEPT ![t] = ThreadIdle]
  /\ UNCHANGED <<last, deref, hist, globals>>

\* get("conf", "k")
ThreadGet(t) ==
  /\ thr[t].pc = "enter" /\ thr[t].op = "get"
  /\ CanLock(Need(t))
  /\ thr' = [thr EXCEPT ![t] = [ThreadIdle EXCEPT !.ret = get(ls, "conf", "k")]]
  /\ UNCHANGED <<ls, last, deref, hist, globals, locks>>

\* is_set("conf", "k")
ThreadIsSet(t) ==
  /\ thr[t].pc = "enter" /\ thr[t].op = "is_set"
  /\ CanLock(Need(t))
  /\ thr' = [thr EXCEPT ![t] = ThreadIdle]
  /\ UNCHANGED <<ls, last, deref, hist, globals, locks>>

\* get_allocator(type): with a type, or with a cached default, it returns
\* under the allocator lock alone; else it goes on to option()
ThreadGetAllocator(t) ==
  /\ thr[t].pc = "enter" /\ thr[t].op = "get_allocator"
  /\ CanLock(Need(t))
  /\ IF thr[t].value # "" \/ ls.cached_default_allocator # 0
     THEN /\ ls' = get_allocator(ls, thr[t].value).st
          /\ thr' = [thr EXCEPT ![t] = ThreadIdle]
          /\ UNCHANGED locks
     ELSE /\ thr' = [thr EXCEPT ![t].pc = "inner"]
          /\ locks' = [locks EXCEPT !.allocator = t]
          /\ UNCHANGED ls
  /\ UNCHANGED <<last, deref, hist, globals>>

ThreadAddAllocator(t) ==
  /\ thr[t].pc = "enter" /\ thr[t].op = "add_allocator"
  /\ CanLock(Need(t))
  /\ ls' = add_allocator(ls, thr[t].arg)
  /\ thr' = [thr EXCEPT ![t] = ThreadIdle]
  /\ UNCHANGED <<last, deref, hist, globals, locks>>

\* set_default_allocator(type): the empty type returns at once
ThreadSetDefaultAllocator(t) ==
  /\ thr[t].pc = "enter" /\ thr[t].op = "set_default_allocator"
  /\ CanLock(Need(t))
  /\ IF thr[t].value = ""
     THEN /\ thr' = [thr EXCEPT ![t] = ThreadIdle]
          /\ UNCHANGED locks
     ELSE /\ thr' = [thr EXCEPT ![t].pc = "inner"]
          /\ locks' = [locks EXCEPT !.allocator = t]
  /\ UNCHANGED <<ls, last, deref, hist, globals>>

\* the nested call and the rest of get_allocator() or set_default_allocator
ThreadInner(t) ==
  /\ thr[t].pc = "inner"
  /\ CanLock(Need(t))
  /\ ls' = IF thr[t].op = "get_allocator"
           THEN get_allocator(ls, "").st
           ELSE set_default_allocator(ls, thr[t].value)
  /\ locks' = [locks EXCEPT !.allocator = 0]
  /\ thr' = [thr EXCEPT ![t] = ThreadIdle]
  /\ UNCHANGED <<last, deref, hist, globals>>

\* a step of thread t inside a call
ThreadStep(t) ==
  \/ ThreadSetFind(t)
  \/ ThreadSetWrite(t)
  \/ ThreadGet(t)
  \/ ThreadIsSet(t)
  \/ ThreadGetAllocator(t)
  \/ ThreadAddAllocator(t)
  \/ ThreadSetDefaultAllocator(t)
  \/ ThreadInner(t)

(***************************************************************************)
(* Threads that set and get one key (SpecSet)                              *)
(***************************************************************************)
NextSet ==
  \/ Initialize(NoTests, Builtin_Modules, Build)
  \/ \E t \in Threads, v \in {"A", "B"} : ThreadCall(t, "set", v, 0)
  \/ \E t \in Threads : ThreadCall(t, "get", "", 0)
  \/ \E t \in Threads : ThreadSetFind(t)
  \/ \E t \in Threads : ThreadSetWrite(t)
  \/ \E t \in Threads : ThreadGet(t)

SpecSet == Init /\ [][NextSet]_vars

\* C16: of the set("conf", "k", v, false) calls that threads make at the same
\* time on a key with no entry, the one that locks the configuration first
\* decides: once no set call is between its lookup and its write the value
\* is that call's, every get returns it, and no later set without overwrite
\* changes it.
C16_FirstLockerWins ==
  [][ /\ (hist'.winner # "" /\ \A t \in Threads : thr'[t].pc # "write")
            => get(ls', "conf", "k") = hist'.winner
      /\ get(ls, "conf", "k") # ""
            => get(ls', "conf", "k") = get(ls, "conf", "k")
      /\ \A t \in Threads :
           (thr[t].pc = "enter" /\ thr[t].op = "get" /\ thr'[t].pc = "idle")
             => /\ thr'[t].ret = get(ls, "conf", "k")
                /\ thr'[t].ret \in {"", hist.winner}
                /\ (hist.winner # "" /\ \A u \in Threads : thr[u].pc # "write")
                     => thr'[t].ret = hist.winner
      /\ hist.winner # "" => hist'.winner = hist.winner
    ]_vars

\* two threads were in set at the same time, with "A" and "B"; the first to
\* lock brought "A", both have returned and a later get has returned "A"
C16_Witness ==
  /\ hist.raced /\ hist.winner = "A"
  /\ \A t \in Threads : ~Busy(t)
  /\ get(ls, "conf", "k") = "A"
  /\ \E t \in Threads : thr[t].ret = "A"

(***************************************************************************)
(* Threads on both locks (SpecLocks)                                       *)
(***************************************************************************)
\* the provider a thread registers after initialization
NewProvider == Len(TypeNames) + 1

LockModules ==
  [ mutex_factory     : {[thread_safe \in BOOLEAN |-> 1]},
    allocators        : {<<1, 2>>},
    default_allocator : {""},
    engines           : {<<>>} ]

NextLocks ==
  \/ \E m \in LockModules : Initialize(NoTests, m, Build)
  \/ \E t \in Threads : ThreadCall(t, "set", "A", 0)
  \/ \E t \in Threads : ThreadCall(t, "get", "", 0)
  \/ \E t \in Threads : ThreadCall(t, "is_set", "", 0)
  \/ \E t \in Threads : ThreadCall(t, "get_allocator", "", 0)
  \/ \E t \in Threads : ThreadCall(t, "add_allocator", "", NewProvider)
  \/ \E t \in Threads : ThreadCall(t, "set_default_allocator", "locking", 0)
  \/ \E t \in Threads : ThreadSetFind(t)
  \/ \E t \in Threads : ThreadSetWrite(t)
  \/ \E t \in Threads : ThreadGet(t)
  \/ \E t \in Threads : ThreadIsSet(t)
  \/ \E t \in Threads : ThreadGetAllocator(t)
  \/ \E t \in Threads : ThreadAddAllocator(t)
  \/ \E t \in Threads : ThreadSetDefaultAllocator(t)
  \/ \E t \in Threads : ThreadInner(t)

SpecLocks == Init /\ [][NextLocks]_vars

\* a scheduler, and mutexes, under which a thread that can take a step again
\* and again does take it
FairSpecLocks == SpecLocks /\ \A t \in Threads : SF_vars(ThreadStep(t))

LockDiscipline ==
  \* the configuration lock is held by set alone between steps, and its
  \* holder neither holds nor asks for the allocator lock
  /\ \A t \in Threads :
       locks.config = t
         => /\ thr[t].op = "set" /\ thr[t].pc = "write"
            /\ locks.allocator # t
            /\ Need(t) # "allocator"
  \* the allocator lock is held, between steps, by a get_allocator() or a
  \* set_default_allocator that goes on to the configuration
  /\ \A t \in Threads :
       locks.allocator = t
         => /\ thr[t].op \in {"get_allocator", "set_default_allocator"}
            /\ thr[t].pc = "inner"
            /\ Need(t) = "config"
  \* a lock that is held is held by a thread inside a call
  /\ \A lock \in {"allocator", "config"} :
       locks[lock] # 0 => Busy(locks[lock])
  \* no thread asks for a lock it holds
  /\ \A t \in Threads : Need(t) # "none" => locks[Need(t)] # t
  \* while a call is running, some thread inside a call can take its step
  /\ (\E t \in Threads : Busy(t))
       => \E t \in Threads : Busy(t) /\ CanLock(Need(t))

====
